---- MODULE Spec2Model ----
(***************************************************************************)
(* The player state machine, the gravity step, the animation frame         *)
(* selector, the frame range remapper and the camera driver of             *)
(* src/src/main.rs, as the five Update systems the scheduler runs once per *)
(* frame in an order it is free to choose (main.rs:366-375 adds them as a  *)
(* plain tuple, without .chain(), .before() or .after()).                  *)
(*                                                                         *)
(* Vertical positions are f32 values.  Every value the program computes is *)
(* a multiple of 2^-20 (the constants are, and an f32 below 16 in          *)
(* magnitude holds every such multiple exactly), so y is kept as an        *)
(* integer count of 2^-20 units and every f32 addition is rounded to the   *)
(* 24-bit significand the way the hardware rounds it (F32).                *)
(***************************************************************************)
EXTENDS Integers, FiniteSets

VARIABLES
    y,                  \* transform.translation.y, in units of 2^-20
    x,                  \* transform.translation.x minus its value at the start of the frame, in halves
    on_ground,          \* Player.on_ground
    state,              \* Player.state
    index,              \* TextureAtlas.index
    first,              \* AnimationIndices.first
    last,               \* AnimationIndices.last
    elapsed,            \* AnimationTimer: time into the current period, in TimeUnit steps
    times_finished,     \* AnimationTimer: periods completed by the latest tick
    camera_move_speed,  \* x of the ParallaxMoveEvent sent in this frame, in halves (0: none yet)
    jump,               \* ButtonInput: pressed(Space) as the latest player_movement read it
    shift,              \* ButtonInput: pressed(ShiftLeft) as the latest player_movement read it
    shiftEdge,          \* ButtonInput: "pressed" / "released" / "none" for ShiftLeft in that frame
    tapped,             \* ShiftLeft was pressed in the frame before the one that released it
    coast,              \* frames of this flight in which Space was up while the state was Jumping
    remapped,           \* the latest change_animation of this frame took the remap branch
    done,               \* the systems that have run in the current frame
    fault               \* change_animation hit its unguarded arithmetic (underflow or /0)

vars == <<y, x, on_ground, state, index, first, last, elapsed, times_finished,
          camera_move_speed, jump, shift, shiftEdge, tapped, coast, remapped, done, fault>>

(***************************************************************************)
(* Constants of main.rs.                                                   *)
(***************************************************************************)
WALK_ANIMATION == <<0, 11>>
RUN_ANIMATION == <<12, 19>>
JUMP_ANIMATION == <<20, 24>>
FALL_ANIMATION == <<25, 29>>

\* -64.0 * 2^20
GROUND_Y == -67108864
\* 9.8f32 = 10276045 * 2^-20 (the nearest f32 to 9.8)
GRAVITY == 10276045
\* 122.0 * 2^20
JUMP_HEIGHT == 127926272
\* 9.8f32 * 1.5 = 15414067.5 * 2^-20, rounded to even in the binade [8,16)
JUMP_SPEED == 15414068
\* x speeds in halves: 1.0 and 1.5
WALK_SPEED == 2
RUN_SPEED == 3
\* the arrow keys' x step in halves: 2.0
ARROW_STEP == 4
\* the timer period 0.1 s in TimeUnit steps of 0.05 s
ANIM_TIME == 2

Systems == {"animate_sprite", "move_camera_system", "player_movement",
            "apply_gravity", "change_animation"}

PlayerState == {"Idle", "Walking", "Jumping", "Running", "Falling"}

(***************************************************************************)
(* Bounds of the model.                                                    *)
(***************************************************************************)
\* frames of one flight in which Space may be up while the state is Jumping
MaxCoast == 1
\* the longest frame, in TimeUnit steps
MaxDelta == 4
\* jump steps above the ground below which SpecAnim lets ShiftLeft change during a rise
MaxRunRise == 2

(***************************************************************************)
(* f32 arithmetic.                                                         *)
(***************************************************************************)
Abs(r) == IF r < 0 THEN -r ELSE r

\* the spacing of f32 values at magnitude a, in units of 2^-20
Ulp(a) ==
    IF a < 16777216 THEN 1
    ELSE IF a < 33554432 THEN 2
    ELSE IF a < 67108864 THEN 4
    ELSE 8

\* round to the nearest f32, ties to the even significand
F32(r) ==
    LET a == Abs(r)
        u == Ulp(a)
        q == a \div u
        m == a % u
        n == IF 2 * m > u \/ (2 * m = u /\ q % 2 = 1) THEN q + 1 ELSE q
    IN  IF r < 0 THEN -(n * u) ELSE n * u

(***************************************************************************)
(* player_movement (main.rs:291-336), one operator per block of the body.  *)
(* p is the Player with its Transform: [y, on_ground, state].              *)
(***************************************************************************)
Ceiling == F32(GROUND_Y + JUMP_HEIGHT)

\* the Space block without the clamp to the ceiling
JumpBlockNoClamp(p, space) ==
    IF ~space THEN p
    ELSE IF p.on_ground
         THEN [p EXCEPT !.on_ground = FALSE,
                        !.state = "Jumping",
                        !.y = F32(p.y + JUMP_SPEED)]
    ELSE IF p.state = "Jumping"
         THEN LET y1 == F32(p.y + JUMP_SPEED)
              IN  IF y1 >= Ceiling
                  THEN [p EXCEPT !.y = y1, !.state = "Falling"]
                  ELSE [p EXCEPT !.y = y1]
    ELSE p

\* the Space block clamping at the ceiling without the change to Falling
JumpBlockNoFall(p, space) ==
    IF ~space THEN p
    ELSE IF p.on_ground
         THEN [p EXCEPT !.on_ground = FALSE,
                        !.state = "Jumping",
                        !.y = F32(p.y + JUMP_SPEED)]
    ELSE IF p.state = "Jumping"
         THEN LET y1 == F32(p.y + JUMP_SPEED)
              IN  IF y1 >= Ceiling
                  THEN [p EXCEPT !.y = Ceiling]
                  ELSE [p EXCEPT !.y = y1]
    ELSE p

\* main.rs:296-310: the Space block
JumpBlock(p, space) ==
    IF ~space THEN p
    ELSE IF p.on_ground
         THEN [p EXCEPT !.on_ground = FALSE,
                        !.state = "Jumping",
                        !.y = F32(p.y + JUMP_SPEED)]
    ELSE IF p.state = "Jumping"
         THEN LET y1 == F32(p.y + JUMP_SPEED)
              IN  IF y1 >= Ceiling
                  THEN [p EXCEPT !.y = Ceiling, !.state = "Falling"]
                  ELSE [p EXCEPT !.y = y1]
    ELSE p

\* main.rs:311-317: ArrowLeft and ArrowRight, the x step they add
ArrowStep(left, right) ==
    (IF left THEN -ARROW_STEP ELSE 0) + (IF right THEN ARROW_STEP ELSE 0)

\* the ShiftLeft block with the release arm missing
RunBlockPressOnly(p, edge) ==
    IF edge = "pressed" THEN [p EXCEPT !.state = "Running"] ELSE p

\* the ShiftLeft block entering Running on the ground only
RunBlockGrounded(p, edge) ==
    IF edge = "pressed" /\ p.on_ground THEN [p EXCEPT !.state = "Running"]
    ELSE IF edge = "released" THEN [p EXCEPT !.state = "Walking"]
    ELSE p

\* main.rs:319-328: the ShiftLeft block; edge is "pressed" for just_pressed,
\* "released" for just_released
RunBlock(p, edge) ==
    IF edge = "pressed" THEN [p EXCEPT !.state = "Running"]
    ELSE IF edge = "released" THEN [p EXCEPT !.state = "Walking"]
    ELSE p

\* the landing block without the clamp to the ground level
LandBlockNoClamp(p) ==
    IF p.y <= GROUND_Y /\ ~p.on_ground
    THEN [p EXCEPT !.on_ground = TRUE, !.state = "Walking"]
    ELSE p

\* the landing block leaving the state as it is
LandBlockKeepState(p) ==
    IF p.y <= GROUND_Y /\ ~p.on_ground
    THEN [p EXCEPT !.on_ground = TRUE, !.y = GROUND_Y]
    ELSE p

\* the landing block coming to rest in Idle
LandBlockIdle(p) ==
    IF p.y <= GROUND_Y /\ ~p.on_ground
    THEN [p EXCEPT !.on_ground = TRUE, !.y = GROUND_Y, !.state = "Idle"]
    ELSE p

\* main.rs:330-335: the landing block
LandBlock(p) ==
    IF p.y <= GROUND_Y /\ ~p.on_ground
    THEN [p EXCEPT !.on_ground = TRUE, !.y = GROUND_Y, !.state = "Walking"]
    ELSE p

\* the edge ButtonInput reports for a key that was `was` in the previous frame
\* and is `now` in this one (one key event per frame at most)
Edge(was, now) ==
    IF ~was /\ now THEN "pressed"
    ELSE IF was /\ ~now THEN "released"
    ELSE "none"

Player == [y |-> y, on_ground |-> on_ground, state |-> state]

\* the whole body, for the inputs of one frame
MovedPlayer(space, edge) == LandBlock(RunBlock(JumpBlock(Player, space), edge))

\* Space up while airborne in state Jumping: the frames MaxCoast bounds
Coasting(space) == ~space /\ ~on_ground /\ state = "Jumping"

Unrun(s) == s \notin done /\ ~fault

\* the system itself, for the keys of one frame
PlayerMoves(space, shiftNow, left, right) ==
    /\ Unrun("player_movement")
    /\ LET edge == Edge(shift, shiftNow)
           q == MovedPlayer(space, edge)
       IN  /\ y' = q.y
           /\ on_ground' = q.on_ground
           /\ state' = q.state
           /\ x' = x + ArrowStep(left, right)
           /\ jump' = space
           /\ shift' = shiftNow
           /\ shiftEdge' = edge
           /\ tapped' = (shiftEdge = "pressed" /\ edge = "released")
    /\ done' = done \cup {"player_movement"}
    /\ UNCHANGED <<index, first, last, elapsed, times_finished,
                   camera_move_speed, remapped, fault>>

\* the system with at most MaxCoast coasting frames in a flight
player_movement_with(space, shiftNow, left, right) ==
    /\ Coasting(space) => coast < MaxCoast
    /\ PlayerMoves(space, shiftNow, left, right)
    /\ coast' = IF MovedPlayer(space, Edge(shift, shiftNow)).on_ground THEN 0
                ELSE IF Coasting(space) THEN coast + 1
                ELSE coast

(***************************************************************************)
(* apply_gravity (main.rs:339-344).                                        *)
(***************************************************************************)
\* the gravity step sparing a player whose state is Jumping
FallenUnlessJumping(p) ==
    IF ~p.on_ground /\ p.state # "Jumping" THEN F32(p.y - GRAVITY) ELSE p.y

\* the gravity step pulling on a player whose state is Falling only
FallenOnlyFalling(p) ==
    IF ~p.on_ground /\ p.state = "Falling" THEN F32(p.y - GRAVITY) ELSE p.y

\* the gravity step taken twice
FallenTwice(p) == IF ~p.on_ground THEN F32(p.y - 2 * GRAVITY) ELSE p.y

Fallen(p) == IF ~p.on_ground THEN F32(p.y - GRAVITY) ELSE p.y

apply_gravity ==
    /\ Unrun("apply_gravity")
    /\ y' = Fallen(Player)
    /\ done' = done \cup {"apply_gravity"}
    /\ UNCHANGED <<x, on_ground, state, index, first, last, elapsed,
                   times_finished, camera_move_speed, jump, shift, shiftEdge,
                   tapped, coast, remapped, fault>>

(***************************************************************************)
(* change_animation (main.rs:62-117).                                      *)
(***************************************************************************)
\* the range each match arm writes; Idle has no arm
RangeOf(st) ==
    CASE st = "Walking" -> WALK_ANIMATION
      [] st = "Running" -> RUN_ANIMATION
      [] st = "Jumping" -> JUMP_ANIMATION
      [] st = "Falling" -> FALL_ANIMATION

\* the guard of the remap: atlas.index < indices.first || atlas.index > indices.last
Outside(idx, nf, nl) == idx < nf \/ idx > nl

\* the usize and f32 arithmetic of the remap leaves the integers when
\* index - pr_first or pr_last - pr_first underflows, or when a positive
\* offset is divided by a zero length (inf as usize, + first)
RemapFaults(idx, pf, pl) == idx < pf \/ pl < pf \/ (pl = pf /\ idx > pf)

\* the remap without the offset of the new range
RemapNoOffset(idx, pf, pl, nf, nl) ==
    IF pl = pf THEN 0
    ELSE (2 * (idx - pf) * (nl - nf) + (pl - pf)) \div (2 * (pl - pf))

\* the remap truncating (as usize without round())
RemapTruncated(idx, pf, pl, nf, nl) ==
    IF pl = pf THEN nf
    ELSE ((idx - pf) * (nl - nf)) \div (pl - pf) + nf

\* ((index - pr_first) as f32 / prev_length as f32 * curr_length as f32).round()
\* as usize + first.  round() rounds halves away from zero.  For the lengths
\* 4, 7, 11 and 29 of this program the f32 product is on the same side of
\* every half as the exact quotient (and exact where the quotient is a
\* half: the length is then 4), so the integer form below is the f32 result.
\* 0/0 is NaN, which casts to 0.
Remap(idx, pf, pl, nf, nl) ==
    IF pl = pf THEN nf
    ELSE (2 * (idx - pf) * (nl - nf) + (pl - pf)) \div (2 * (pl - pf)) + nf

\* the arm remapping whether or not the index is outside the new range
RemappedAlways(idx, pf, pl, nf, nl) == Remap(idx, pf, pl, nf, nl)

\* atlas.index after the arm for the range <<nf, nl>>
Remapped(idx, pf, pl, nf, nl) ==
    IF Outside(idx, nf, nl) THEN Remap(idx, pf, pl, nf, nl) ELSE idx

\* the TextureAtlas index and the AnimationIndices of the player entity
Animation == [index |-> index, first |-> first, last |-> last]

\* the arm for state st would reach the remap with arithmetic that faults
Faults(a, st) ==
    /\ st # "Idle"
    /\ Outside(a.index, RangeOf(st)[1], RangeOf(st)[2])
    /\ RemapFaults(a.index, a.first, a.last)

\* the body of the loop for a player in state st: the animation data after it
Changed(a, st) ==
    IF st = "Idle" THEN a
    ELSE LET r == RangeOf(st)
         IN  [index |-> Remapped(a.index, a.first, a.last, r[1], r[2]),
              first |-> r[1],
              last |-> r[2]]

change_animation ==
    /\ Unrun("change_animation")
    /\ done' = done \cup {"change_animation"}
    /\ IF state = "Idle"
       THEN UNCHANGED <<index, first, last, remapped, fault>>
       ELSE LET r == RangeOf(state)
            IN  /\ remapped' = Outside(index, r[1], r[2])
                /\ IF Faults(Animation, state)
                   THEN /\ fault' = TRUE
                        /\ UNCHANGED <<index, first, last>>
                   ELSE /\ first' = Changed(Animation, state).first
                        /\ last' = Changed(Animation, state).last
                        /\ index' = Changed(Animation, state).index
                        /\ UNCHANGED fault
    /\ UNCHANGED <<y, x, on_ground, state, elapsed, times_finished,
                   camera_move_speed, jump, shift, shiftEdge, tapped, coast>>

(***************************************************************************)
(* animate_sprite (main.rs:120-158).                                       *)
(***************************************************************************)
\* Timer::tick in TimerMode::Repeating: <<elapsed, times_finished_this_tick>>
Tick(e, delta) == <<(e + delta) % ANIM_TIME, (e + delta) \div ANIM_TIME>>

\* Timer::just_finished
JustFinished(times) == times > 0

\* the index after one firing, wrapping in every state
NextIndexWrapping(idx, st, f, l) == IF idx = l THEN f ELSE idx + 1

\* the index after one firing, wrapping to frame 0 of the sheet
NextIndexFromZero(idx, st, f, l) ==
    IF idx = l
    THEN IF st \in {"Walking", "Running"} THEN 0
         ELSE IF st \in {"Jumping", "Falling"} THEN l
         ELSE 0
    ELSE idx + 1

\* main.rs:129-137: the index after one firing
NextIndex(idx, st, f, l) ==
    IF idx = l
    THEN IF st \in {"Walking", "Running"} THEN f
         ELSE IF st \in {"Jumping", "Falling"} THEN l
         ELSE f
    ELSE idx + 1

\* main.rs:143-157: the x step of the state, in halves; the arms hold the
\* literals 1.0 and 1.5, not WALK_SPEED and RUN_SPEED
Forward(st) ==
    CASE st = "Walking" -> 2
      [] st = "Running" -> 3
      [] st = "Jumping" -> 2
      [] st = "Falling" -> 2
      [] OTHER -> 0

animate_sprite_with(delta) ==
    /\ Unrun("animate_sprite")
    /\ done' = done \cup {"animate_sprite"}
    /\ LET t == Tick(elapsed, delta)
       IN  /\ elapsed' = t[1]
           /\ times_finished' = t[2]
           /\ index' = IF JustFinished(t[2])
                       THEN NextIndex(index, state, first, last)
                       ELSE index
    /\ x' = x + Forward(state)
    /\ UNCHANGED <<y, on_ground, state, first, last, camera_move_speed,
                   jump, shift, shiftEdge, tapped, coast, remapped, fault>>

(***************************************************************************)
(* move_camera_system (main.rs:162-180).                                   *)
(***************************************************************************)
CameraSpeed(st) == IF st = "Running" THEN RUN_SPEED ELSE WALK_SPEED

move_camera_system ==
    /\ Unrun("move_camera_system")
    /\ done' = done \cup {"move_camera_system"}
    /\ camera_move_speed' = CameraSpeed(state)
    /\ UNCHANGED <<y, x, on_ground, state, index, first, last, elapsed,
                   times_finished, jump, shift, shiftEdge, tapped, coast,
                   remapped, fault>>

(***************************************************************************)
(* The frame loop (main.rs:366-376): once every system of the Update       *)
(* schedule has run, the next frame begins.                                *)
(***************************************************************************)
EndFrame ==
    /\ done = Systems
    /\ ~fault
    /\ done' = {}
    /\ x' = 0
    /\ camera_move_speed' = 0
    /\ remapped' = FALSE
    /\ UNCHANGED <<y, on_ground, state, index, first, last, elapsed,
                   times_finished, jump, shift, shiftEdge, tapped, coast, fault>>

(***************************************************************************)
(* setup (main.rs:263-288): the state before the first frame.              *)
(***************************************************************************)
Init ==
    /\ y = GROUND_Y
    /\ x = 0
    /\ on_ground = TRUE
    /\ state = "Walking"
    /\ index = WALK_ANIMATION[1]
    /\ first = WALK_ANIMATION[1]
    /\ last = FALL_ANIMATION[2]
    /\ elapsed = 0
    /\ times_finished = 0
    /\ camera_move_speed = 0
    /\ jump = FALSE
    /\ shift = FALSE
    /\ shiftEdge = "none"
    /\ tapped = FALSE
    /\ coast = 0
    /\ remapped = FALSE
    /\ done = {}
    /\ fault = FALSE

(***************************************************************************)
(* Spec: the player's keys are free in every frame and the clock stands    *)
(* still (Time::delta() is zero, as it is in the first frame).             *)
(***************************************************************************)
player_movement ==
    \E space \in BOOLEAN, shiftNow \in BOOLEAN :
        player_movement_with(space, shiftNow, FALSE, FALSE)

animate_sprite == animate_sprite_with(0)

Next ==
    \/ player_movement
    \/ apply_gravity
    \/ change_animation
    \/ animate_sprite
    \/ move_camera_system
    \/ EndFrame

Spec == Init /\ [][Next]_vars

(***************************************************************************)
(* SpecAnim: the clock runs, a frame taking 0 .. MaxDelta time steps.      *)
(* Space is free on the ground and held from takeoff to landing; ShiftLeft *)
(* is free, except that it changes during a rise only below MaxRunRise     *)
(* jump steps above the ground.                                            *)
(***************************************************************************)
Rising == ~on_ground /\ state = "Jumping"

player_movement_anim ==
    \E space \in BOOLEAN, shiftNow \in BOOLEAN :
        /\ ~on_ground => space
        /\ (Rising /\ shiftNow # shift) => y < GROUND_Y + MaxRunRise * JUMP_SPEED
        /\ player_movement_with(space, shiftNow, FALSE, FALSE)

animate_sprite_timed == \E delta \in 0 .. MaxDelta : animate_sprite_with(delta)

NextAnim ==
    \/ player_movement_anim
    \/ apply_gravity
    \/ change_animation
    \/ animate_sprite_timed
    \/ move_camera_system
    \/ EndFrame

SpecAnim == Init /\ [][NextAnim]_vars

(***************************************************************************)
(* SpecJump: Space is held down in every frame and ShiftLeft is never      *)
(* touched; the clock stands still.  The run loop keeps executing frames   *)
(* (App::run, main.rs:376), which is the fairness stated.                  *)
(***************************************************************************)
player_movement_jump == player_movement_with(TRUE, FALSE, FALSE, FALSE)

NextJump ==
    \/ player_movement_jump
    \/ apply_gravity
    \/ change_animation
    \/ animate_sprite
    \/ move_camera_system
    \/ EndFrame

SpecJump == Init /\ [][NextJump]_vars /\ WF_vars(NextJump)

(***************************************************************************)
(* SpecHover: the keys are free and the clock stands still, as in Spec,    *)
(* but a flight may coast in any number of frames, as long as Space is let *)
(* go during a rise only when player_movement reads y at HoverLevel, the   *)
(* height of the first frame of a jump after its gravity step.  The run    *)
(* loop keeps executing frames, which is the fairness stated.              *)
(***************************************************************************)
HoverLevel == F32(F32(GROUND_Y + JUMP_SPEED) - GRAVITY)

player_movement_hover ==
    \E space \in BOOLEAN, shiftNow \in BOOLEAN :
        /\ Coasting(space) => y = HoverLevel
        /\ PlayerMoves(space, shiftNow, FALSE, FALSE)
        /\ UNCHANGED coast

NextHover ==
    \/ player_movement_hover
    \/ apply_gravity
    \/ change_animation
    \/ animate_sprite
    \/ move_camera_system
    \/ EndFrame

SpecHover == Init /\ [][NextHover]_vars /\ WF_vars(NextHover)

(***************************************************************************)
(* Steps of the systems, as the claims below name them.                    *)
(***************************************************************************)
Ran(sys) == sys \notin done /\ sys \in done'

Ranges == {WALK_ANIMATION, RUN_ANIMATION, JUMP_ANIMATION, FALL_ANIMATION}

\* player_movement took off / touched down in this step
TakesOff == on_ground /\ ~on_ground'
Lands == ~on_ground /\ on_ground'

(***************************************************************************)
(* C1.  Jump cycle, with Space held in every frame and no ShiftLeft edge   *)
(* (SpecJump): a player_movement that starts on the ground at GROUND_Y     *)
(* leaves state = Jumping and on_ground = FALSE, and no other system       *)
(* changes them before the frame ends; the state leaves Jumping only in a  *)
(* player_movement, for Falling, with y = GROUND_Y + JUMP_HEIGHT, and it   *)
(* does so eventually; a Falling player is eventually on the ground, and   *)
(* the first player_movement that sees y <= GROUND_Y sets Walking,         *)
(* on_ground and y = GROUND_Y.                                             *)
(***************************************************************************)
C1_JumpCycle ==
    /\ [][(Ran("player_movement") /\ on_ground /\ y = GROUND_Y)
            => (state' = "Jumping" /\ ~on_ground')]_vars
    /\ [][~Ran("player_movement") => UNCHANGED <<state, on_ground>>]_vars
    /\ (state = "Jumping") ~> (state = "Falling")
    /\ [](state = "Jumping" => y < GROUND_Y + JUMP_HEIGHT)
    /\ [][(state = "Jumping" /\ state' # "Jumping")
            => (state' = "Falling" /\ y' = GROUND_Y + JUMP_HEIGHT)]_vars
    /\ (state = "Falling") ~> on_ground
    /\ [][(Ran("player_movement") /\ state = "Falling")
            => IF y <= GROUND_Y
               THEN state' = "Walking" /\ on_ground' /\ y' = GROUND_Y
               ELSE state' = "Falling" /\ ~on_ground']_vars

\* a player_movement has landed the player while Space is held
C1_Landed ==
    /\ "player_movement" \in done
    /\ jump
    /\ on_ground /\ state = "Walking" /\ y = GROUND_Y

(***************************************************************************)
(* C2.  As claimed: on_ground is true iff y = GROUND_Y, in every state.    *)
(***************************************************************************)
C2_Original == on_ground <=> (y = GROUND_Y)

(***************************************************************************)
(* C2, amended.  on_ground implies y = GROUND_Y in every state, and        *)
(* y = GROUND_Y implies on_ground in every state where player_movement has *)
(* run in the frame and apply_gravity has not (apply_gravity can lower an  *)
(* airborne player onto GROUND_Y exactly, where it stays with on_ground    *)
(* false until the next player_movement).                                  *)
(***************************************************************************)
C2_GroundLevel ==
    /\ on_ground => y = GROUND_Y
    /\ ("player_movement" \in done /\ "apply_gravity" \notin done)
          => (y = GROUND_Y => on_ground)

\* the player has landed from a fall: on the ground, the fall range still active
C2_Landed ==
    /\ "player_movement" \in done /\ "apply_gravity" \notin done
    /\ on_ground /\ first = FALL_ANIMATION[1]

(***************************************************************************)
(* C3.  Once change_animation has run in a frame, AnimationIndices is the  *)
(* range of one of the four states and first <= index <= last (SpecAnim).  *)
(***************************************************************************)
C3_IndexInRange ==
    "change_animation" \in done
        => (<<first, last>> \in Ranges /\ first <= index /\ index <= last)

\* change_animation has remapped the frame into the range of Falling
C3_RemappedToFall ==
    /\ remapped /\ ~fault
    /\ state = "Falling" /\ first = FALL_ANIMATION[1]

(***************************************************************************)
(* C4.  When change_animation remaps, the new index minus the new first is *)
(* (index - prev_first) / (prev_last - prev_first) * (new_last - new_first)*)
(* rounded to the nearest integer, halves upward: k with                   *)
(* k - 1/2 <= quotient < k + 1/2.  From [0,11], index 6, to [20,24] the    *)
(* new index is 22 (SpecAnim).                                             *)
(***************************************************************************)
C4_RemapFormula ==
    [][(Ran("change_animation") /\ remapped')
         => LET p == last - first
                c == last' - first'
                i == index - first
                k == index' - first'
            IN  /\ ~fault'
                /\ 2 * p * k - p <= 2 * i * c
                /\ 2 * i * c < 2 * p * k + p
                /\ (<<first, last, index>> = <<0, 11, 6>> /\ <<first', last'>> = <<20, 24>>)
                      => index' = 22]_vars

\* a remap into the jump range has just produced frame 22
C4_Remapped22 ==
    /\ remapped /\ "animate_sprite" \notin done
    /\ <<first, last>> = JUMP_ANIMATION /\ index = 22

(***************************************************************************)
(* C5.  As claimed: in every frame player_movement runs before             *)
(* change_animation, and change_animation before animate_sprite.           *)
(***************************************************************************)
C5_SystemOrder ==
    /\ "change_animation" \in done => "player_movement" \in done
    /\ "animate_sprite" \in done => "change_animation" \in done

(***************************************************************************)
(* C6.  As claimed: after the player_movement of a frame that newly        *)
(* pressed ShiftLeft the state is Running, and after the player_movement   *)
(* of the next frame, which released it, the state is Walking.             *)
(***************************************************************************)
C6_Original ==
    /\ shiftEdge = "pressed" => state = "Running"
    /\ tapped => state = "Walking"

(***************************************************************************)
(* C6, amended.  The player_movement of a frame that newly pressed         *)
(* ShiftLeft leaves the state Running, unless that same player_movement    *)
(* lands the player, which leaves it Walking; the player_movement of the   *)
(* next frame, which released ShiftLeft, leaves it Walking; and no other   *)
(* system changes the state in between.                                    *)
(***************************************************************************)
C6_PressRelease ==
    /\ [][(Ran("player_movement") /\ shiftEdge' = "pressed")
            => state' = IF Lands THEN "Walking" ELSE "Running"]_vars
    /\ [](tapped => state = "Walking")
    /\ [][~Ran("player_movement") => state' = state]_vars

\* ShiftLeft was pressed in one frame and released in the next, in the air
C6_Tapped == tapped /\ ~on_ground /\ state = "Walking"

(***************************************************************************)
(* C7.  As claimed: player_movement starts a jump exactly when Space is    *)
(* newly pressed (down in this frame, up in the previous one) and          *)
(* on_ground is true.                                                      *)
(***************************************************************************)
C7_JumpOnNewPress ==
    [][Ran("player_movement")
         => ((TakesOff /\ y' = F32(y + JUMP_SPEED))
                <=> (on_ground /\ jump' /\ ~jump))]_vars

(***************************************************************************)
(* C8.  As claimed: after the player_movement of every frame in which      *)
(* ShiftLeft went from up to down the state is Running.                    *)
(***************************************************************************)
C8_Original == shiftEdge = "pressed" => state = "Running"

(***************************************************************************)
(* C8, amended.  In every frame in which ShiftLeft goes from up to down,   *)
(* player_movement leaves the state Running (on the ground, rising or      *)
(* falling), unless it lands the player in that same run, which leaves the *)
(* state Walking.                                                          *)
(***************************************************************************)
C8_RunOnPress ==
    [][(Ran("player_movement") /\ ~shift /\ shift')
         => /\ ~Lands => state' = "Running"
            /\ Lands => state' = "Walking"]_vars

\* ShiftLeft was newly pressed in the air and the state is Running
C8_RunningInAir == shiftEdge = "pressed" /\ ~on_ground /\ state = "Running"

(***************************************************************************)
(* C9.  As claimed: animate_sprite moves the index forward by the number   *)
(* of periods the tick completed (floor of the elapsed time over the       *)
(* period, the remainder carried), modulo the range length while Walking   *)
(* or Running and clamped at last while Jumping or Falling.                *)
(***************************************************************************)
Forwarded(idx, n, st, f, l) ==
    IF st \in {"Walking", "Running"}
    THEN f + ((idx - f + n) % (l - f + 1))
    ELSE IF idx + n > l THEN l ELSE idx + n

C9_StepPerPeriod ==
    [][Ran("animate_sprite")
         => index' = Forwarded(index, times_finished', state, first, last)]_vars

C11_Idempotent ==
    /\ [](~Faults(Animation, state) =>
            LET a == Changed(Animation, state)
            IN  ~Faults(a, state) /\ Changed(a, state) = a)
    /\ [][(/\ Ran("change_animation")
           /\ \/ <<first, last>> = RangeOf(state)
              \/ ~Outside(index, RangeOf(state)[1], RangeOf(state)[2]))
          => (index' = index /\ <<first', last'>> = RangeOf(state))]_vars

\* change_animation has run first in a frame, on a Running player whose
\* index was already in the middle of the run range, and has not remapped
C11_LeftAlone ==
    /\ done = {"change_animation"}
    /\ ~remapped
    /\ state = "Running"
    /\ <<first, last>> = RUN_ANIMATION
    /\ index = 15

(***************************************************************************)
(* C12.  y never exceeds GROUND_Y + JUMP_HEIGHT; a player_movement step    *)
(* that reads Space held while the state is Jumping in the air, with       *)
(* y + JUMP_SPEED at or past that value, sets y to exactly that value.     *)
(* C12_Original adds, as the claim does, that the state is then Falling;   *)
(* C12_Ceiling says what the state is: Falling unless ShiftLeft changed in *)
(* that frame, Running if it was pressed, Walking if it was released (the  *)
(* ShiftLeft block runs after the Space block).                            *)
(***************************************************************************)
ReachesCeiling ==
    /\ Ran("player_movement")
    /\ jump'
    /\ Rising
    /\ F32(y + JUMP_SPEED) >= GROUND_Y + JUMP_HEIGHT

C12_Original ==
    /\ [](y <= GROUND_Y + JUMP_HEIGHT)
    /\ [][ReachesCeiling =>
            (y' = GROUND_Y + JUMP_HEIGHT /\ state' = "Falling")]_vars

C12_Ceiling ==
    /\ [](y <= GROUND_Y + JUMP_HEIGHT)
    /\ [][ReachesCeiling =>
            /\ y' = GROUND_Y + JUMP_HEIGHT
            /\ state' = CASE shiftEdge' = "pressed" -> "Running"
                           [] shiftEdge' = "released" -> "Walking"
                           [] OTHER -> "Falling"]_vars

\* player_movement has just clamped the held jump at the ceiling
C12_Clamped ==
    /\ "player_movement" \in done
    /\ "apply_gravity" \notin done
    /\ jump
    /\ y = GROUND_Y + JUMP_HEIGHT
    /\ state = "Falling"

(***************************************************************************)
(* C13.  An apply_gravity step lowers y by GRAVITY when on_ground is       *)
(* false, whatever the state (the f32 subtraction y - GRAVITY: the f32     *)
(* nearest to the difference, within half a unit in the last place of      *)
(* it), leaves y as it is when on_ground is true, and changes neither      *)
(* on_ground, the state, x, the animation data nor the timer.              *)
(***************************************************************************)
C13_Gravity ==
    [][Ran("apply_gravity") =>
        /\ on_ground => y' = y
        /\ ~on_ground =>
              /\ y' = F32(y - GRAVITY)
              /\ y' < y
              /\ 2 * Abs(y' - (y - GRAVITY)) <= Ulp(Abs(y - GRAVITY))
        /\ UNCHANGED <<on_ground, state, x, index, first, last, elapsed,
                       times_finished>>]_vars

\* the first frame with Space held, player_movement before apply_gravity:
\* the jump step and the gravity step have both been applied to y, and the
\* state is still Jumping
C13_BothApplied ==
    /\ {"player_movement", "apply_gravity"} \subseteq done
    /\ jump
    /\ state = "Jumping"
    /\ ~on_ground
    /\ y = F32(F32(GROUND_Y + JUMP_SPEED) - GRAVITY)

(***************************************************************************)
(* C14.  In every frame the camera move speed move_camera_system sends     *)
(* equals the forward displacement animate_sprite adds to the player's x   *)
(* in that frame.  In Spec the arrow keys are up, so x, the displacement   *)
(* of the frame so far, is the step animate_sprite added.                  *)
(***************************************************************************)
C14_CameraMatchesPlayer ==
    {"animate_sprite", "move_camera_system"} \subseteq done
        => camera_move_speed = x

(***************************************************************************)
(* C15.  Landing is guaranteed.  C15_Original: from every state with       *)
(* on_ground false a state with on_ground true follows, whatever the keys  *)
(* do.  C15_LandsOnceNotJumping: it follows from every state with          *)
(* on_ground false whose state is not Jumping (Falling, or Running or      *)
(* Walking in the air), and the air never gives the state Jumping back.    *)
(***************************************************************************)
C15_Original == ~on_ground ~> on_ground

C15_LandsOnceNotJumping ==
    /\ (~on_ground /\ state # "Jumping") ~> on_ground
    /\ [][(~on_ground /\ state # "Jumping" /\ ~on_ground')
            => state' # "Jumping"]_vars

\* a landing frame with both keys going down: Space is held, so the player
\* was in the air when player_movement began (on the ground it would have
\* taken off); ShiftLeft was just pressed, and the landing block, which
\* runs last, has written Walking over Running
C15_LandedWithKeysDown ==
    /\ on_ground
    /\ "player_movement" \in done
    /\ jump
    /\ shiftEdge = "pressed"
    /\ state = "Walking"

(***************************************************************************)
(* C16.  The unguarded arithmetic of the remap never faults: every         *)
(* change_animation step that takes the remap branch finds                 *)
(* prev_last - prev_first > 0 and prev_first <= index <= prev_last, and no *)
(* reachable state has seen the arithmetic underflow or divide by zero.    *)
(***************************************************************************)
C16_RemapNeverFaults ==
    /\ [](~fault)
    /\ [][(/\ Ran("change_animation")
           /\ Outside(index, RangeOf(state)[1], RangeOf(state)[2]))
          => (last - first > 0 /\ first <= index /\ index <= last)]_vars

\* ShiftLeft was released on the last frame of the run cycle, and
\* change_animation, after player_movement, has remapped 19 of 12..19 to
\* 11 of 0..11
C16_RemappedFromRun ==
    /\ {"player_movement", "change_animation"} \subseteq done
    /\ "animate_sprite" \notin done
    /\ shiftEdge = "released"
    /\ remapped
    /\ ~fault
    /\ state = "Walking"
    /\ index = 11

(***************************************************************************)
(* C17.  Whenever on_ground is true the state is Walking or Running; the   *)
(* states Jumping and Falling occur only while on_ground is false.         *)
(***************************************************************************)
C17_GroundStates ==
    /\ on_ground => state \in {"Walking", "Running"}
    /\ state \in {"Jumping", "Falling"} => ~on_ground

\* the converse fails: Walking in the air, after a ShiftLeft release
C17_WalkingInAir ==
    /\ ~on_ground
    /\ state = "Walking"
    /\ y > GROUND_Y

C19_NeverIdle ==
    /\ [](state \in {"Walking", "Running", "Jumping", "Falling"})
    /\ [][Ran("change_animation") => <<first', last'>> \in Ranges]_vars
    /\ [][Ran("animate_sprite") => x' > x]_vars

\* both systems have run on a Falling player: the fall range is written
\* and the player has moved forward
C19_FallingAnimated ==
    /\ {"change_animation", "animate_sprite"} \subseteq done
    /\ "player_movement" \notin done
    /\ state = "Falling"
    /\ <<first, last>> = FALL_ANIMATION
    /\ x = 2

====
